---- MODULE Spec2Model ----
(***************************************************************************)
(* A model of the lyric synchronization engine of sprt:                    *)
(*   - lyricUseCase.GetLyrics       (cache, provider query, LRC back-fill) *)
(*   - lyricUseCase.GetLyricChannel (display loop, poll goroutine, timers) *)
(* Times are in milliseconds, as in the source. Instants (the anchor       *)
(* startTime, timer deadlines) are kept as distances from time.Now(), so   *)
(* the passing of time moves them and time.Now() itself is 0.              *)
(***************************************************************************)
EXTENDS Integers, Sequences, FiniteSets, Bags, TLC

VARIABLES
    \* ---- GetLyricChannel: context, channels, process state
    ctxDone,            \* ctx.Done() is closed
    updateCh,           \* buffered contents of updateCh
    sendq,              \* goroutines parked in a send on a full updateCh, FIFO
    pending,            \* the value each parked goroutine is sending
    closed,             \* close(updateCh) has run
    panicked,           \* "none", or the runtime panic that ended the process
    dpc,                \* position of the display goroutine
    ppc,                \* position of the poll goroutine
    pprog,              \* poll goroutine: track.ProgressMs awaiting lines 301-302
    perr,               \* poll goroutine: err of line 278 awaiting line 280
    polls,              \* ticks taken by the poll goroutine
    \* ---- GetLyricChannel: the closure variables shared by both goroutines
    lyrics,
    currentSong,
    currentProgressMs,
    startTime,          \* the anchor, as its distance from time.Now()
    currentLineIndex,
    activeIndex,
    lineCopy,           \* line: the display loop's copy of the line it is about to send
    internalUpdateCh,   \* buffered contents of internalUpdateCh; a signal is tagged
                        \* "fresh" when the timer of the latest line update sent it
    wokenBy,            \* tag of the signal the display loop is processing
    timers,             \* bag of time.AfterFunc timers not yet fired: time left,
                        \* and whether the latest line update armed it
    goSenders,          \* goroutines of line 372 not yet past their send
    \* ---- lyricUseCase
    cache,
    allocs,             \* *Lyrics objects allocated so far, per cache key
    \* ---- consumer of updateCh
    reading,
    \* ---- history (observations used by the properties only)
    acqCount,           \* GetLyrics invocations made by the engine
    lastTitle,          \* title of the last snapshot the engine obtained
    progTitle,          \* title of the snapshot whose progress is currentProgressMs
    lastLine,           \* last line update sent: lyric set id and index
    quiet,              \* no poll wrote shared state since the last line update
    \* ---- a run of the active-line search on its own
    sLines, sProgress,
    sIndex,             \* the index found, -1 before the search has run
    \* ---- a client calling GetLyrics in sequence
    calls,              \* calls made
    requests,           \* provider requests issued
    prev, last,         \* the two latest calls: arguments and result
    \* ---- authRepository and the callers of GetCurrentlyPlayingDetails
    auth,               \* r.auth, the stored credentials
    now,                \* time.Now().Unix()
    tc,                 \* per caller: position and locals of its call
    tokReqs,            \* refresh requests sent to the token endpoint so far
    inflight,           \* callers whose refresh request is not yet answered
    authFile,           \* contents of ~/.sprt/auth.json
    \* ---- a run of the synced-lyrics parser on its own
    pSrc,               \* the synced-lyrics text, split into lines
    pLines,             \* the lines the parser produced
    pDone,
    \* ---- goroutines calling GetLyrics concurrently
    gl,                 \* per goroutine: position and locals of its call
    stored,             \* the cache writes in the order they took the lock
    \* ---- PipeLyricModel, the interactive consumer
    ui,                 \* the model's fields
    shown,              \* what View rendered after the latest update
    got,                \* the updates received so far
    sideFile            \* contents of /tmp/current-lyric.txt

engineVars == <<ctxDone, updateCh, sendq, pending, closed, panicked, dpc, ppc,
                pprog, perr, polls, lyrics, currentSong, currentProgressMs, startTime,
                currentLineIndex, activeIndex, lineCopy, internalUpdateCh, wokenBy, timers,
                goSenders, reading, acqCount, lastTitle, progTitle, lastLine,
                quiet>>
cacheVars == <<cache, allocs>>
searchVars == <<sLines, sProgress, sIndex>>
clientVars == <<calls, requests, prev, last>>
tokenVars == <<auth, now, tc, tokReqs, inflight, authFile>>
parseVars == <<pSrc, pLines, pDone>>
raceVars == <<gl, stored>>
uiVars == <<ui, shown, got, sideFile>>
vars == <<engineVars, cacheVars, searchVars, clientVars, tokenVars, parseVars,
          raceVars, uiVars>>

(***************************************************************************)
(* Program constants                                                       *)
(***************************************************************************)
UpdateChCap == 10
InternalChCap == 1
TrailMs == 5000
PollIntervalMs == 500

(***************************************************************************)
(* Bounds of the model                                                     *)
(***************************************************************************)
MaxPolls == 2
MaxDrift == 1
ClockStep == 2 * PollIntervalMs
MaxLen == 3
MaxCalls == 3

Titles == {"A", "B"}
Artists == {"x", "y"}
Albums == {"m", "n"}
ProgressValues == {0, 2500}

(***************************************************************************)
(* Lyrics, lines and the provider's candidates                             *)
(***************************************************************************)
NoId == [key |-> "", n |-> 0]
NilLyrics == [id |-> NoId, ID |-> 0, Synced |-> FALSE, Lines |-> <<>>]

(***************************************************************************)
(* The text of one synced-lyrics line, as the characters the parser tells  *)
(* apart: brackets, colon and dot, white space, runs of digits (by value), *)
(* and other text                                                          *)
(***************************************************************************)
Sym(c) == [t |-> "sym", n |-> 0, s |-> c]
Num(n) == [t |-> "num", n |-> n, s |-> ""]
Word(w) == [t |-> "word", n |-> 0, s |-> w]
Space == [t |-> "space", n |-> 0, s |-> " "]

\* strings.TrimSpace(line) == ""
IsBlank(line) == \A i \in DOMAIN line : line[i].t = "space"

\* strings.Index(line, c)
IndexOf(line, c) ==
    IF \E i \in DOMAIN line : line[i] = Sym(c)
    THEN CHOOSE i \in DOMAIN line :
            line[i] = Sym(c) /\ \A j \in 1..(i - 1) : line[j] # Sym(c)
    ELSE -1

RECURSIVE SkipSpace(_)
SkipSpace(ts) ==
    IF ts # <<>> /\ Head(ts).t = "space" THEN SkipSpace(Tail(ts)) ELSE ts

\* the verb %d: white space is skipped, then an integer is read
ScanInt(ts) ==
    LET a == SkipSpace(ts)
    IN IF a # <<>> /\ Head(a).t = "num"
       THEN [ok |-> TRUE, n |-> Head(a).n, rest |-> Tail(a)]
       ELSE [ok |-> FALSE, n |-> 0, rest |-> <<>>]

\* a literal character of the format
ScanLit(ts, c) ==
    IF ts # <<>> /\ Head(ts) = Sym(c)
    THEN [ok |-> TRUE, rest |-> Tail(ts)] ELSE [ok |-> FALSE, rest |-> <<>>]

\* fmt.Sscanf(timestamp, "%d:%d.%d", ...): input left over after the last verb
\* is no error
Sscanf(ts) ==
    LET m == ScanInt(ts)
        c == ScanLit(m.rest, ":")
        sc == ScanInt(c.rest)
        d == ScanLit(sc.rest, ".")
        f == ScanInt(d.rest)
    IN IF m.ok /\ c.ok /\ sc.ok /\ d.ok /\ f.ok
       THEN [ok |-> TRUE, min |-> m.n, sec |-> sc.n, frac |-> f.n]
       ELSE [ok |-> FALSE, min |-> 0, sec |-> 0, frac |-> 0]

Timed(m, s, f, t) == [kind |-> "timed", min |-> m, sec |-> s, frac |-> f, text |-> t]
Untimed(k) == [kind |-> k, min |-> 0, sec |-> 0, frac |-> 0, text |-> ""]

\* one pass of the loop body up to the timestamp conversion: what the line is
ScanLine(line) ==
    IF IsBlank(line) THEN Untimed("blank")
    ELSE IF Head(line) # Sym("[") THEN Untimed("no opening bracket")
    ELSE LET closeBracket == IndexOf(line, "]")
         IN IF closeBracket = -1 THEN Untimed("no closing bracket")
            ELSE LET r == Sscanf(SubSeq(line, 2, closeBracket - 1))
                 IN IF ~r.ok THEN Untimed("bad timestamp")
                    ELSE Timed(r.min, r.sec, r.frac,
                               SubSeq(line, closeBracket + 1, Len(line)))

StartOfMillis(sl) == sl.min * 60 * 1000 + sl.sec * 1000 + sl.frac

\* timestamp conversion of one kept source line
StartOf(sl) == sl.min * 60 * 1000 + sl.sec * 1000 + sl.frac * 10

RECURSIVE ParseLinesAbort(_)
ParseLinesAbort(src) ==
    IF src = <<>> \/ Head(src).kind # "timed" THEN <<>>
    ELSE <<[StartTimeMs |-> StartOf(Head(src)), EndTimeMs |-> 0,
            Text |-> Head(src).text]>> \o ParseLinesAbort(Tail(src))

\* the parse loop: source lines that carry no parsable timestamp are skipped
RECURSIVE ParseLines(_)
ParseLines(src) ==
    IF src = <<>> THEN <<>>
    ELSE LET sl == Head(src)
             rest == ParseLines(Tail(src))
         IN IF sl.kind = "timed"
            THEN <<[StartTimeMs |-> StartOf(sl), EndTimeMs |-> 0, Text |-> sl.text]>> \o rest
            ELSE rest

\* end-time back-fill
SetEndTimes(ls) ==
    [i \in DOMAIN ls |->
        [ls[i] EXCEPT !.EndTimeMs =
            IF i < Len(ls) THEN ls[i + 1].StartTimeMs ELSE ls[i].StartTimeMs + TrailMs]]

\* lines 159-203 on the text of a synced-lyrics field
ScanAll(text) == [i \in DOMAIN text |-> ScanLine(text[i])]

ParseSynced(text) == SetEndTimes(ParseLines(ScanAll(text)))

SrcA == <<Timed(0, 0, 0, "a0"), Timed(0, 1, 0, "a1"), Untimed("blank"), Timed(0, 3, 0, "a2")>>
SrcB == <<Timed(0, 0, 0, "b0"), Timed(0, 2, 0, "b1")>>
CandA == [Id |-> 1, SyncedLyrics |-> TRUE, src |-> SrcA]
CandB == [Id |-> 2, SyncedLyrics |-> TRUE, src |-> SrcB]
CandPlain == [Id |-> 3, SyncedLyrics |-> FALSE, src |-> <<>>]
CandPlainToo == [Id |-> 4, SyncedLyrics |-> FALSE, src |-> <<>>]
ProviderResponses ==
    {<<>>, <<CandA>>, <<CandPlain, CandB>>, <<CandPlain>>,
     <<CandPlain, CandB, CandA>>, <<CandPlainToo, CandPlain>>}

\* index of the first candidate with synced lyrics, else the first candidate
RECURSIVE FirstSynced(_, _)
FirstSynced(resp, i) ==
    IF i > Len(resp) THEN 0
    ELSE IF resp[i].SyncedLyrics THEN i ELSE FirstSynced(resp, i + 1)

SelectCandidateFirst(resp) == resp[1]

SelectCandidate(resp) ==
    LET i == FirstSynced(resp, 1) IN IF i = 0 THEN resp[1] ELSE resp[i]

MakeLyrics(resp, id) ==
    LET sel == SelectCandidate(resp)
    IN [id |-> id,
        ID |-> sel.Id,
        Synced |-> sel.SyncedLyrics,
        Lines |-> IF sel.SyncedLyrics THEN SetEndTimes(ParseLines(sel.src)) ELSE <<>>]

CacheKey(artist, title) == artist \o "|" \o title

\* a variant that stores nothing
CacheStoreDropped(c, key, l) == c

\* a variant in which the first write under a key wins
CacheStoreIfAbsent(c, key, l) ==
    [k \in DOMAIN c \cup {key} |-> IF k \in DOMAIN c THEN c[k] ELSE l]

CacheStore(c, key, l) ==
    [k \in DOMAIN c \cup {key} |-> IF k = key THEN l ELSE c[k]]

(***************************************************************************)
(* GetLyrics as one call. outcome is what the provider does if asked: an   *)
(* error (transport error, bad status, bad body) or a candidate list.      *)
(* The result names the returned pointer, whether err is nil and what it   *)
(* says, the cache and the allocations afterwards, and whether the         *)
(* provider was asked.                                                     *)
(***************************************************************************)
Allocated(al, key) == IF key \in DOMAIN al THEN al[key] ELSE 0

\* a variant that remembers an empty answer of the provider
GetLyricsCallKeepsMiss(c, al, artist, title, album, outcome) ==
    LET key == CacheKey(artist, title)
    IN IF key \in DOMAIN c
       THEN [ret |-> c[key], ok |-> c[key] # NilLyrics,
             err |-> IF c[key] # NilLyrics THEN "" ELSE "no lyrics found",
             cache |-> c, allocs |-> al, requested |-> FALSE]
       ELSE IF outcome.err
            THEN [ret |-> NilLyrics, ok |-> FALSE, err |-> "request failed",
                  cache |-> c, allocs |-> al, requested |-> TRUE]
       ELSE IF outcome.cands = <<>>
            THEN [ret |-> NilLyrics, ok |-> FALSE, err |-> "no lyrics found",
                  cache |-> CacheStore(c, key, NilLyrics), allocs |-> al,
                  requested |-> TRUE]
            ELSE LET n == Allocated(al, key) + 1
                     l == MakeLyrics(outcome.cands, [key |-> key, n |-> n])
                 IN [ret |-> l, ok |-> TRUE, err |-> "",
                     cache |-> CacheStore(c, key, l),
                     allocs |-> CacheStore(al, key, n), requested |-> TRUE]

GetLyricsCall(c, al, artist, title, album, outcome) ==
    LET key == CacheKey(artist, title)
    IN IF key \in DOMAIN c
       THEN [ret |-> c[key], ok |-> TRUE, err |-> "", cache |-> c, allocs |-> al,
             requested |-> FALSE]
       ELSE IF outcome.err
            THEN [ret |-> NilLyrics, ok |-> FALSE, err |-> "request failed",
                  cache |-> c, allocs |-> al, requested |-> TRUE]
       ELSE IF outcome.cands = <<>>
            THEN [ret |-> NilLyrics, ok |-> FALSE, err |-> "no lyrics found",
                  cache |-> c, allocs |-> al, requested |-> TRUE]
            ELSE LET n == Allocated(al, key) + 1
                     l == MakeLyrics(outcome.cands, [key |-> key, n |-> n])
                 IN [ret |-> l, ok |-> TRUE, err |-> "",
                     cache |-> CacheStore(c, key, l),
                     allocs |-> CacheStore(al, key, n), requested |-> TRUE]

\* what a provider request can produce; a request under a cancelled context fails
Failure == [err |-> TRUE, cands |-> <<>>]
Outcomes(cancelled) ==
    IF cancelled THEN {Failure}
    ELSE {Failure} \cup {[err |-> FALSE, cands |-> r] : r \in ProviderResponses}

\* the provider as the engine sees it: a database, one answer per title
Catalogue(title) == IF title = "A" THEN <<CandA>> ELSE <<CandPlain, CandB>>
EngineOutcomes(title) == {Failure, [err |-> FALSE, cands |-> Catalogue(title)]}

(***************************************************************************)
(* Active-line search                                                      *)
(***************************************************************************)
\* a variant that scans on past a line that starts after p
RECURSIVE FindFromNoBreak(_, _, _, _)
FindFromNoBreak(ls, p, i, cur) ==
    IF i > Len(ls) THEN cur
    ELSE IF ls[i].StartTimeMs <= p /\ p < ls[i].EndTimeMs THEN i - 1
    ELSE FindFromNoBreak(ls, p, i + 1, i - 1)

\* the loop over lyrics.Lines from line i on, cur being currentLineIndex
RECURSIVE FindFrom(_, _, _, _)
FindFrom(ls, p, i, cur) ==
    IF i > Len(ls) THEN cur
    ELSE IF ls[i].StartTimeMs <= p /\ p < ls[i].EndTimeMs THEN i - 1
    ELSE IF ls[i].StartTimeMs > p THEN cur
    ELSE FindFrom(ls, p, i + 1, i - 1)

FindLine(ls, p) == FindFrom(ls, p, 1, 0)

\* a variant that never takes the index for the emitted one
SameIndexNever(active, idx) == FALSE

\* a variant in which the index emitted last starts at 0
SameIndexFromZero(active, idx) == (IF active = -1 THEN 0 ELSE active) = idx

\* a variant that also skips an index below the emitted one
SameIndexOrLower(active, idx) == idx <= active

SameIndex(active, idx) == active = idx

(***************************************************************************)
(* Updates                                                                 *)
(***************************************************************************)
\* a nil *LyricLine
NoLine == [StartTimeMs |-> -1, EndTimeMs |-> -1, Text |-> ""]

ErrUpdate(msg) ==
    [Lyrics |-> NilLyrics, Line |-> NoLine, LineIndex |-> 0, Text |-> "",
     IsError |-> TRUE, ErrorMsg |-> msg]
NoLyricsUpdate ==
    [Lyrics |-> NilLyrics, Line |-> NoLine, LineIndex |-> 0,
     Text |-> "No lyrics to display.", IsError |-> FALSE, ErrorMsg |-> ""]
\* the update of lines 348-353 from the values read: the lyric set, the copy
\* of the line and the index
SentUpdate(l, ln, idx) ==
    [Lyrics |-> l, Line |-> ln, LineIndex |-> idx,
     Text |-> "      " \o ln.Text \o "      ",
     IsError |-> FALSE, ErrorMsg |-> ""]
LineUpdate(l, idx) == SentUpdate(l, l.Lines[idx + 1], idx)
NoUpdate == [Lyrics |-> NilLyrics, Line |-> NoLine, LineIndex |-> 0, Text |-> "",
             IsError |-> FALSE, ErrorMsg |-> ""]

IsLineUpdate(u) == ~u.IsError /\ u.Lyrics # NilLyrics

Running == panicked = "none"

EmptyCache == [k \in {} |-> NilLyrics]

EngineInit ==
    /\ ctxDone = FALSE
    /\ updateCh = <<>> /\ sendq = <<>>
    /\ pending = [g \in {"display", "poll"} |-> NoUpdate]
    /\ closed = FALSE /\ panicked = "none"
    /\ dpc = "start" /\ ppc = "none" /\ pprog = 0 /\ perr = "" /\ polls = 0
    /\ lyrics = NilLyrics /\ currentSong = "" /\ currentProgressMs = 0 /\ startTime = 0
    /\ currentLineIndex = 0 /\ activeIndex = -1 /\ lineCopy = NoLine
    /\ internalUpdateCh = <<>> /\ wokenBy = "none" /\ timers = EmptyBag /\ goSenders = 0
    /\ reading = TRUE
    /\ acqCount = 0 /\ lastTitle = "" /\ progTitle = ""
    /\ lastLine = [id |-> NoId, idx |-> -1] /\ quiet = FALSE

CacheInit == cache = EmptyCache /\ allocs = [k \in {} |-> 0]

NoCall == [artist |-> "", title |-> "", album |-> "", ret |-> NilLyrics,
           ok |-> FALSE, err |-> "", requested |-> FALSE,
           outcome |-> [err |-> TRUE, cands |-> <<>>]]   \* outcome: the provider's
                                        \* answer to the call's request, if any

SearchIdle == sLines = <<>> /\ sProgress = 0 /\ sIndex = -1
ClientIdle == calls = 0 /\ requests = 0 /\ prev = NoCall /\ last = NoCall

(***************************************************************************)
(* entity.SpotifyAuth, the token endpoint and the currently-playing        *)
(* endpoint                                                                *)
(***************************************************************************)
StartNow == 10
MaxTicks == 2
Callers == {"c1", "c2"}

\* &entity.SpotifyAuth{}: what NewAuthRepository holds before anything is stored
EmptyAuth ==
    [ClientID |-> "", ClientSecret |-> "", AccessToken |-> "", RefreshToken |-> "",
     ExpiresIn |-> 0, TokenType |-> "", Scope |-> "", ExpiresAt |-> 0]

Credentials(access, refresh, expiresAt) ==
    [ClientID |-> "id", ClientSecret |-> "secret", AccessToken |-> access,
     RefreshToken |-> refresh, ExpiresIn |-> 3600, TokenType |-> "Bearer",
     Scope |-> "s0", ExpiresAt |-> expiresAt]

\* credentials the repository may hold when a call starts
StoredAuths ==
    {EmptyAuth, Credentials("at0", "", StartNow - 1)}
        \cup {Credentials("at0", "rt0", e) : e \in {0} \cup (StartNow - 1)..(StartNow + 2)}

\* bodies of a 200 answer of the token endpoint
TokenResponses ==
    [access_token : {"at1", "at2"}, token_type : {"Bearer"}, expires_in : {2},
     refresh_token : {"", "rt1"}, scope : {"s1"}]

NoResponse ==
    [access_token |-> "", token_type |-> "", expires_in |-> 0, refresh_token |-> "",
     scope |-> ""]

\* answers to the currently-playing request: no usable answer at all (transport
\* failure, unreadable or malformed body), or a status code
SnapshotReplies ==
    {[failed |-> TRUE, status |-> 0]}
        \cup {[failed |-> FALSE, status |-> st] : st \in {200, 204, 500}}

IsExpiredStrict(a, t) == a.ExpiresAt = 0 \/ a.ExpiresAt < t

IsExpired(a, t) == IF a.ExpiresAt = 0 THEN TRUE ELSE a.ExpiresAt <= t

HasRefreshTokenAlways(a) == TRUE

HasRefreshToken(a) == a.RefreshToken # ""

NewAuthDropRefresh(old, resp, t) ==
    [ClientID |-> old.ClientID, ClientSecret |-> old.ClientSecret,
     AccessToken |-> resp.access_token, RefreshToken |-> resp.refresh_token,
     ExpiresIn |-> resp.expires_in, TokenType |-> resp.token_type,
     Scope |-> resp.scope, ExpiresAt |-> t + resp.expires_in]

NewAuth(old, resp, t) ==
    [ClientID |-> old.ClientID, ClientSecret |-> old.ClientSecret,
     AccessToken |-> resp.access_token,
     RefreshToken |-> IF resp.refresh_token = "" THEN old.RefreshToken
                      ELSE resp.refresh_token,
     ExpiresIn |-> resp.expires_in, TokenType |-> resp.token_type,
     Scope |-> resp.scope, ExpiresAt |-> t + resp.expires_in]

\* json.MarshalIndent and json.Unmarshal of entity.SpotifyAuth, by field tag
MarshalAuth(a) ==
    [client_id |-> a.ClientID, client_secret |-> a.ClientSecret,
     access_token |-> a.AccessToken, refresh_token |-> a.RefreshToken,
     expires_in |-> a.ExpiresIn, token_type |-> a.TokenType, scope |-> a.Scope,
     expires_at |-> a.ExpiresAt]
UnmarshalAuth(j) ==
    [ClientID |-> j.client_id, ClientSecret |-> j.client_secret,
     AccessToken |-> j.access_token, RefreshToken |-> j.refresh_token,
     ExpiresIn |-> j.expires_in, TokenType |-> j.token_type, Scope |-> j.scope,
     ExpiresAt |-> j.expires_at]

\* the file after a complete write of a, and a file cut short by a failed write
FileWith(a) == [readable |-> TRUE, json |-> MarshalAuth(a)]
Truncated == [readable |-> FALSE, json |-> MarshalAuth(EmptyAuth)]

\* loadFromFile: the credentials a new repository would hold
LoadFromFile(f) == IF f.readable THEN UnmarshalAuth(f.json) ELSE EmptyAuth

\* saveToFile: os.WriteFile of the marshalled r.auth; a failed write leaves the
\* old contents or a truncated file
SaveToFile(f, a, saved) == IF saved THEN {FileWith(a)} ELSE {f, Truncated}

AfterCheckSkip(expired) == "request"

\* where GetCurrentlyPlayingDetails goes after auth.IsExpired()
AfterCheck(expired) == IF expired THEN "refresh" ELSE "request"

\* the error GetCurrentlyPlayingDetails makes of an answer, "" when it makes none
SnapshotError(reply) ==
    IF reply.failed THEN "failed to get currently playing"
    ELSE IF reply.status = 204 THEN "no track currently playing"
    ELSE IF reply.status # 200 THEN "unexpected status"
    ELSE ""

NoToken == "-"

IdleCaller ==
    [pc |-> "idle", seen |-> EmptyAuth, checkedAt |-> 0, expired |-> FALSE,
     old |-> EmptyAuth, resp |-> NoResponse, local |-> EmptyAuth,
     sent |-> NoToken, ret |-> ""]

TokenIdle ==
    /\ auth = EmptyAuth /\ now = 0 /\ tc = [c \in Callers |-> IdleCaller]
    /\ tokReqs = 0 /\ inflight = {} /\ authFile = FileWith(EmptyAuth)

ParseIdle == pSrc = <<>> /\ pLines = <<>> /\ pDone = FALSE

Fetchers == {"g1", "g2", "g3"}

IdleFetcher ==
    [pc |-> "idle", key |-> "", at |-> 0, ret |-> NilLyrics, ok |-> FALSE,
     requested |-> FALSE]

RaceIdle == gl = [g \in Fetchers |-> IdleFetcher] /\ stored = <<>>

\* NewPipeLyricModel
NewModel ==
    [lyrics |-> NilLyrics, currentLine |-> "Loading lyrics...", currentLineIdx |-> -1,
     err |-> "", quitting |-> FALSE]

UiIdle == ui = NewModel /\ shown = <<>> /\ got = <<>> /\ sideFile = ""

Init ==
    /\ EngineInit /\ CacheInit /\ SearchIdle /\ ClientIdle /\ TokenIdle /\ ParseIdle
    /\ RaceIdle /\ UiIdle

chanVars == <<updateCh, sendq, pending>>
sharedVars == <<lyrics, currentSong, currentProgressMs, startTime>>
sigVars == <<internalUpdateCh, timers, goSenders>>
pollHist == <<acqCount, lastTitle, progTitle>>

(***************************************************************************)
(* Channel operations                                                      *)
(***************************************************************************)
HasRoom == Len(updateCh) < UpdateChCap

\* updateCh <- u by the display goroutine, continuing at next
DSend(u, next) ==
    IF HasRoom
    THEN /\ updateCh' = Append(updateCh, u) /\ dpc' = next
         /\ UNCHANGED <<sendq, pending>>
    ELSE /\ sendq' = Append(sendq, "display")
         /\ pending' = [pending EXCEPT !["display"] = u]
         /\ dpc' = "blocked"
         /\ UNCHANGED updateCh

\* updateCh <- u by the poll goroutine, followed by continue
PSend(u) ==
    IF closed
    THEN /\ panicked' = "send on closed channel" /\ ppc' = "done"
         /\ UNCHANGED chanVars
    ELSE IF HasRoom
    THEN /\ updateCh' = Append(updateCh, u) /\ ppc' = "select"
         /\ UNCHANGED <<sendq, pending, panicked>>
    ELSE /\ sendq' = Append(sendq, "poll")
         /\ pending' = [pending EXCEPT !["poll"] = u]
         /\ ppc' = "blocked"
         /\ UNCHANGED <<updateCh, panicked>>

\* a variant that queues the signal behind a pending one
SignalQueued(ch, tag) == Append(ch, tag)

\* select { case internalUpdateCh <- struct{}{}: default: }
Signal(ch, tag) == IF Len(ch) < InternalChCap THEN Append(ch, tag) ELSE ch

\* a variant without the deferred close
CloseUpdateChMissing == UNCHANGED <<closed, panicked>>

\* close(updateCh): closing a closed channel panics, and so does a goroutine
\* parked in a send
CloseUpdateCh ==
    /\ closed' = TRUE
    /\ panicked' = IF closed THEN "close of closed channel"
                   ELSE IF sendq # <<>> THEN "send on closed channel"
                   ELSE panicked

(***************************************************************************)
(* Snapshot source: GetCurrentlyPlayingDetails either fails (no token,     *)
(* refresh failure, transport error, 204 "no track", bad status or body)   *)
(* or returns a track. Under a cancelled context the request fails.        *)
(***************************************************************************)
\* the tracks played: title "A" by either artist, title "B" by the first
Snapshots ==
    {t \in [Title : Titles, Artist : Artists, Album : Albums] :
        t.Title = "A" \/ t.Artist = "x"}

\* a variant that takes every snapshot for a new track
TitleChangedAlways(title, song) == TRUE

TitleChanged(title, song) == title # song

RECURSIVE SumOver(_, _)
SumOver(S, B) ==
    IF S = {} THEN 0
    ELSE LET e == CHOOSE x \in S : TRUE IN B[e] + SumOver(S \ {e}, B)

\* the bag of f[e] for the elements e of bag B
ImageBag(f, B) ==
    [x \in {f[e] : e \in DOMAIN B} |-> SumOver({e \in DOMAIN B : f[e] = x}, B)]

StaleTimer(t) == [t EXCEPT !.fresh = FALSE]
Stale(ts) == ImageBag([t \in DOMAIN ts |-> StaleTimer(t)], ts)
StaleTags(ch) == [i \in DOMAIN ch |-> "sig"]

(***************************************************************************)
(* Display goroutine, before the loop                                      *)
(***************************************************************************)
\* first fetch fails: one error update, then return
StartFetchErr ==
    /\ Running /\ dpc = "start"
    /\ updateCh' = Append(updateCh, ErrUpdate("Error getting track"))
    /\ dpc' = "return"
    /\ UNCHANGED <<ctxDone, sendq, pending, closed, panicked, ppc, pprog, perr, polls,
                   sharedVars, currentLineIndex, activeIndex, lineCopy, sigVars, wokenBy,
                   reading, pollHist, lastLine, quiet, cacheVars, searchVars, clientVars, tokenVars, parseVars,
                   raceVars, uiVars>>

\* return of the display goroutine: the deferred close(updateCh)
Return ==
    /\ Running /\ dpc = "return"
    /\ CloseUpdateCh
    /\ dpc' = "done"
    /\ UNCHANGED <<ctxDone, chanVars, ppc, pprog, perr, polls, sharedVars,
                   currentLineIndex, activeIndex, lineCopy, sigVars, wokenBy, reading, pollHist,
                   lastLine, quiet, cacheVars, searchVars, clientVars, tokenVars, parseVars,
                   raceVars, uiVars>>

\* first fetch succeeds: GetLyrics, the closure variables, the initial signal,
\* and the poll goroutine is started
StartOk(snaps, progs) ==
    /\ Running /\ dpc = "start" /\ ~ctxDone
    /\ \E snap \in snaps, startTimeMs \in progs :
      \E o \in EngineOutcomes(snap.Title) :
        LET r == GetLyricsCall(cache, allocs, snap.Artist, snap.Title, snap.Album, o)
        IN /\ lyrics' = r.ret
           /\ cache' = r.cache /\ allocs' = r.allocs
           /\ updateCh' = IF r.ok THEN updateCh
                          ELSE Append(updateCh, ErrUpdate("No lyrics found"))
           /\ currentSong' = snap.Title
           /\ currentLineIndex' = FindLine(r.ret.Lines, startTimeMs)
           /\ startTime' = 0 - startTimeMs
           /\ currentProgressMs' = startTimeMs
           /\ lastTitle' = snap.Title
           /\ progTitle' = snap.Title
    /\ internalUpdateCh' = Append(internalUpdateCh, "sig")
    /\ acqCount' = acqCount + 1
    /\ dpc' = "select" /\ ppc' = "select"
    /\ UNCHANGED <<ctxDone, sendq, pending, closed, panicked, pprog, perr, polls,
                   activeIndex, lineCopy, wokenBy, timers, goSenders, reading, lastLine, quiet,
                   searchVars, clientVars, tokenVars, parseVars,
                   raceVars, uiVars>>

(***************************************************************************)
(* Poll goroutine                                                          *)
(***************************************************************************)
PollExit ==
    /\ Running /\ ppc = "select" /\ ctxDone
    /\ ppc' = "done"
    /\ UNCHANGED <<ctxDone, chanVars, closed, panicked, dpc, pprog, perr, polls,
                   sharedVars, currentLineIndex, activeIndex, lineCopy, sigVars, wokenBy,
                   reading, pollHist, lastLine, quiet, cacheVars, searchVars, clientVars, tokenVars, parseVars,
                   raceVars, uiVars>>

\* case <-ticker.C: of the poll goroutine, taken at most MaxPolls times
PollTick == ppc = "select" /\ polls < MaxPolls /\ polls' = polls + 1

\* a tick whose fetch fails: no usable answer, or a status other than 200, the
\* 204 of a player with no track included
PollFetchErr ==
    /\ Running /\ PollTick
    /\ \E reply \in SnapshotReplies :
         SnapshotError(reply) # "" /\ perr' = SnapshotError(reply)
    /\ ppc' = "errTrack"
    /\ UNCHANGED <<ctxDone, chanVars, closed, panicked, dpc, pprog,
                   sharedVars, currentLineIndex, activeIndex, lineCopy, sigVars, wokenBy,
                   reading, pollHist, lastLine, quiet, cacheVars, searchVars, clientVars, tokenVars, parseVars,
                   raceVars, uiVars>>

\* the error update of a failed fetch or a failed acquisition, then continue
PollSendErr ==
    /\ Running /\ ppc \in {"errTrack", "errLyrics"}
    /\ PSend(ErrUpdate(IF ppc = "errTrack" THEN "Error getting track"
                       ELSE "Error getting lyrics"))
    /\ perr' = "" /\ pprog' = 0
    /\ UNCHANGED <<ctxDone, closed, dpc, polls, sharedVars,
                   currentLineIndex, activeIndex, lineCopy, sigVars, wokenBy, reading, pollHist,
                   lastLine, quiet, cacheVars, searchVars, clientVars, tokenVars, parseVars,
                   raceVars, uiVars>>

\* lines 301-309: progress, anchor, non-blocking signal
WriteProgress(p) ==
    /\ currentProgressMs' = p
    /\ startTime' = 0 - p
    /\ internalUpdateCh' = Signal(internalUpdateCh, "sig")
    /\ quiet' = FALSE

\* a tick whose fetch succeeds with the last-seen title
PollSameTitle(snaps, progs) ==
    /\ Running /\ PollTick /\ ~ctxDone
    /\ \E snap \in snaps, p \in progs :
        /\ ~TitleChanged(snap.Title, currentSong)
        /\ pprog' = p
        /\ lastTitle' = snap.Title
    /\ ppc' = "write"
    /\ UNCHANGED <<ctxDone, perr, chanVars, closed, panicked, dpc, sharedVars,
                   currentLineIndex, activeIndex, lineCopy, sigVars, wokenBy, reading,
                   acqCount, progTitle, lastLine, quiet, cacheVars, searchVars, clientVars, tokenVars, parseVars,
                   raceVars, uiVars>>

\* a tick whose fetch succeeds with another title: GetLyrics, whose result is
\* assigned to lyrics; on failure an error update follows
PollNewTitle(snaps, progs) ==
    /\ Running /\ PollTick /\ ~ctxDone
    /\ \E snap \in snaps, p \in progs :
      \E o \in EngineOutcomes(snap.Title) :
        LET r == GetLyricsCall(cache, allocs, snap.Artist, snap.Title, snap.Album, o)
        IN /\ TitleChanged(snap.Title, currentSong)
           /\ currentSong' = snap.Title
           /\ lyrics' = r.ret
           /\ cache' = r.cache /\ allocs' = r.allocs
           /\ lastTitle' = snap.Title
           /\ pprog' = p
           /\ ppc' = IF r.ok THEN "write" ELSE "errLyrics"
    /\ acqCount' = acqCount + 1
    /\ quiet' = FALSE
    /\ UNCHANGED <<ctxDone, chanVars, closed, panicked, dpc, perr, progTitle,
                   currentProgressMs, startTime, currentLineIndex, activeIndex, lineCopy,
                   sigVars, wokenBy, reading, lastLine, searchVars, clientVars, tokenVars, parseVars,
                   raceVars, uiVars>>

PollWrite ==
    /\ Running /\ ppc = "write"
    /\ WriteProgress(pprog)
    /\ pprog' = 0
    /\ progTitle' = lastTitle
    /\ ppc' = "select"
    /\ UNCHANGED <<ctxDone, chanVars, closed, panicked, dpc, perr, polls, lyrics,
                   currentSong, currentLineIndex, activeIndex, lineCopy, timers, goSenders,
                   wokenBy, reading, acqCount, lastTitle, lastLine, cacheVars, searchVars, clientVars, tokenVars, parseVars,
                   raceVars, uiVars>>

(***************************************************************************)
(* Display loop                                                            *)
(***************************************************************************)
\* a runtime panic in the display goroutine: the deferred close runs, then the
\* process ends
DisplayPanic(what) ==
    /\ closed' = TRUE /\ panicked' = what /\ dpc' = "done"

\* case <-ctx.Done(): return
DisplayCancel ==
    /\ Running /\ dpc = "select" /\ ctxDone
    /\ CloseUpdateCh
    /\ dpc' = "done"
    /\ UNCHANGED <<ctxDone, chanVars, ppc, pprog, perr, polls, sharedVars,
                   currentLineIndex, activeIndex, lineCopy, sigVars, wokenBy, reading, pollHist,
                   lastLine, quiet, cacheVars, searchVars, clientVars, tokenVars, parseVars,
                   raceVars, uiVars>>

\* case <-internalUpdateCh: and line 320: no lyric set, or one without lines
DisplayWake ==
    /\ Running /\ dpc = "select" /\ internalUpdateCh # <<>>
    /\ internalUpdateCh' = Tail(internalUpdateCh)
    /\ IF lyrics = NilLyrics \/ Len(lyrics.Lines) = 0
       THEN /\ DSend(NoLyricsUpdate, "select")
            /\ wokenBy' = "none"
       ELSE /\ dpc' = "search"
            /\ wokenBy' = Head(internalUpdateCh)
            /\ UNCHANGED chanVars
    /\ UNCHANGED <<ctxDone, closed, panicked, ppc, pprog, perr, polls, sharedVars,
                   currentLineIndex, activeIndex, lineCopy, timers, goSenders, reading,
                   pollHist, lastLine, quiet, cacheVars, searchVars, clientVars, tokenVars, parseVars,
                   raceVars, uiVars>>

\* lines 328-341: the search, and continue when the index is the last emitted one
DisplaySearch ==
    /\ Running /\ dpc = "search"
    /\ IF lyrics = NilLyrics
       THEN /\ DisplayPanic("nil dereference")
            /\ UNCHANGED currentLineIndex
       ELSE LET idx == FindLine(lyrics.Lines, currentProgressMs)
            IN /\ currentLineIndex' = idx
               /\ dpc' = IF SameIndex(activeIndex, idx) THEN "select" ELSE "emit"
               /\ UNCHANGED <<closed, panicked>>
    /\ wokenBy' = "none"
    /\ UNCHANGED <<ctxDone, chanVars, ppc, pprog, perr, polls, sharedVars, activeIndex, lineCopy,
                   sigVars, reading, pollHist, lastLine, quiet, cacheVars, searchVars, clientVars, tokenVars, parseVars,
                   raceVars, uiVars>>

\* lines 344-347: the bound check, activeIndex, the copy of the line
DisplayEmit ==
    /\ Running /\ dpc = "emit"
    /\ IF lyrics = NilLyrics
       THEN /\ DisplayPanic("nil dereference")
            /\ UNCHANGED <<activeIndex, lineCopy>>
       ELSE IF currentLineIndex < Len(lyrics.Lines)
       THEN /\ activeIndex' = currentLineIndex
            /\ lineCopy' = lyrics.Lines[currentLineIndex + 1]
            /\ dpc' = "send"
            /\ UNCHANGED <<closed, panicked>>
       ELSE /\ dpc' = "select"
            /\ UNCHANGED <<activeIndex, lineCopy, closed, panicked>>
    /\ UNCHANGED <<ctxDone, chanVars, ppc, pprog, perr, polls, sharedVars,
                   currentLineIndex, sigVars, wokenBy, reading, pollHist, lastLine,
                   quiet, cacheVars, searchVars, clientVars, tokenVars, parseVars,
                   raceVars, uiVars>>

\* lines 348-353: the line update, built from lyrics as it is now
DisplaySend ==
    /\ Running /\ dpc = "send"
    /\ DSend(SentUpdate(lyrics, lineCopy, currentLineIndex), "timer")
    /\ lineCopy' = NoLine
    /\ lastLine' = [id |-> lyrics.id, idx |-> currentLineIndex]
    /\ quiet' = TRUE
    /\ timers' = Stale(timers)
    /\ internalUpdateCh' = StaleTags(internalUpdateCh)
    /\ UNCHANGED <<ctxDone, closed, panicked, ppc, pprog, perr, polls, sharedVars,
                   currentLineIndex, activeIndex, goSenders, wokenBy, reading,
                   pollHist, cacheVars, searchVars, clientVars, tokenVars, parseVars,
                   raceVars, uiVars>>

\* lines 356-376: the one-shot timer for the next line, or an immediate signal
DisplayTimer ==
    /\ Running /\ dpc = "timer"
    /\ IF lyrics = NilLyrics
       THEN /\ DisplayPanic("nil dereference")
            /\ UNCHANGED <<timers, goSenders>>
       ELSE /\ IF currentLineIndex < Len(lyrics.Lines) - 1
               THEN LET nextLine == lyrics.Lines[currentLineIndex + 2]
                        waitTime == startTime + nextLine.StartTimeMs
                    IN IF waitTime > 0
                       THEN /\ timers' = timers (+) SetToBag({[at |-> waitTime,
                                                               fresh |-> quiet]})
                            /\ UNCHANGED goSenders
                       ELSE /\ goSenders' = goSenders + 1
                            /\ UNCHANGED timers
               ELSE UNCHANGED <<timers, goSenders>>
            /\ dpc' = "select"
            /\ UNCHANGED <<closed, panicked>>
    /\ UNCHANGED <<ctxDone, chanVars, ppc, pprog, perr, polls, sharedVars,
                   currentLineIndex, activeIndex, lineCopy, internalUpdateCh, wokenBy, reading,
                   pollHist, lastLine, quiet, cacheVars, searchVars, clientVars, tokenVars, parseVars,
                   raceVars, uiVars>>

(***************************************************************************)
(* Timers and helper goroutines                                            *)
(***************************************************************************)
\* the AfterFunc callback: a non-blocking signal
TimerFire ==
    /\ Running
    /\ \E t \in BagToSet(timers) :
        /\ t.at <= 0
        /\ internalUpdateCh' =
              Signal(internalUpdateCh, IF t.fresh THEN "fresh" ELSE "sig")
        /\ timers' = timers (-) SetToBag({t})
    /\ UNCHANGED <<ctxDone, chanVars, closed, panicked, dpc, ppc, pprog, perr, polls,
                   sharedVars, currentLineIndex, activeIndex, lineCopy, goSenders, wokenBy,
                   reading, pollHist, lastLine, quiet, cacheVars, searchVars, clientVars, tokenVars, parseVars,
                   raceVars, uiVars>>

\* go func() { internalUpdateCh <- struct{}{} }(): a blocking send
GoSend ==
    /\ Running /\ goSenders > 0 /\ Len(internalUpdateCh) < InternalChCap
    /\ internalUpdateCh' = Append(internalUpdateCh, "sig")
    /\ goSenders' = goSenders - 1
    /\ UNCHANGED <<ctxDone, chanVars, closed, panicked, dpc, ppc, pprog, perr, polls,
                   sharedVars, currentLineIndex, activeIndex, lineCopy, timers, wokenBy,
                   reading, pollHist, lastLine, quiet, cacheVars, searchVars, clientVars, tokenVars, parseVars,
                   raceVars, uiVars>>

(***************************************************************************)
(* Environment: the clock, the caller's cancel function, the consumer      *)
(***************************************************************************)
Elapse(t) == [t EXCEPT !.at = IF t.at > ClockStep THEN t.at - ClockStep ELSE 0]

\* ClockStep ms pass; the model lets at most MaxDrift steps pass after an anchor
Tick ==
    /\ Running /\ dpc \notin {"start", "return"}
    /\ 0 - startTime - currentProgressMs < MaxDrift * ClockStep
    /\ startTime' = startTime - ClockStep
    /\ timers' = ImageBag([t \in DOMAIN timers |-> Elapse(t)], timers)
    /\ UNCHANGED <<ctxDone, chanVars, closed, panicked, dpc, ppc, pprog, perr, polls,
                   lyrics, currentSong, currentProgressMs, currentLineIndex,
                   activeIndex, lineCopy, internalUpdateCh, goSenders, wokenBy, reading,
                   pollHist, lastLine, quiet, cacheVars, searchVars, clientVars, tokenVars, parseVars,
                   raceVars, uiVars>>

\* a variant in which the cancel function closes the channel itself
CancelCloses ==
    /\ Running
    /\ ctxDone' = TRUE
    /\ CloseUpdateCh
    /\ UNCHANGED <<chanVars, dpc, ppc, pprog, perr, polls,
                   sharedVars, currentLineIndex, activeIndex, lineCopy, sigVars, wokenBy,
                   reading, pollHist, lastLine, quiet, cacheVars, searchVars,
                   clientVars, tokenVars, parseVars,
                   raceVars, uiVars>>

\* cancel(): signal handler, deferred cancel
Cancel ==
    /\ Running
    /\ ctxDone' = TRUE
    /\ UNCHANGED <<chanVars, closed, panicked, dpc, ppc, pprog, perr, polls,
                   sharedVars, currentLineIndex, activeIndex, lineCopy, sigVars, wokenBy,
                   reading, pollHist, lastLine, quiet, cacheVars, searchVars, clientVars, tokenVars, parseVars,
                   raceVars, uiVars>>

\* the interactive consumer quits: cancel() and no further receive
ConsumerQuit ==
    /\ Running /\ reading
    /\ reading' = FALSE /\ ctxDone' = TRUE
    /\ UNCHANGED <<chanVars, closed, panicked, dpc, ppc, pprog, perr, polls,
                   sharedVars, currentLineIndex, activeIndex, lineCopy, sigVars, wokenBy,
                   pollHist, lastLine, quiet, cacheVars, searchVars, clientVars, tokenVars, parseVars,
                   raceVars, uiVars>>

\* update := <-updateCh; a parked sender's value moves into the freed slot
Recv ==
    /\ Running /\ reading /\ updateCh # <<>>
    /\ IF sendq = <<>>
       THEN /\ updateCh' = Tail(updateCh)
            /\ UNCHANGED <<sendq, pending, dpc, ppc>>
       ELSE LET g == Head(sendq)
            IN /\ updateCh' = Append(Tail(updateCh), pending[g])
               /\ sendq' = Tail(sendq)
               /\ pending' = [pending EXCEPT ![g] = NoUpdate]
               /\ dpc' = IF g # "display" THEN dpc
                         ELSE IF pending[g].Line # NoLine THEN "timer" ELSE "select"
               /\ ppc' = IF g = "poll" THEN "select" ELSE ppc
    /\ UNCHANGED <<ctxDone, closed, panicked, pprog, perr, polls, sharedVars,
                   currentLineIndex, activeIndex, lineCopy, sigVars, wokenBy, reading, pollHist,
                   lastLine, quiet, cacheVars, searchVars, clientVars, tokenVars, parseVars,
                   raceVars, uiVars>>

\* the goroutines, the player reporting tracks of snaps at positions of progs
DisplayNext(snaps, progs) ==
    \/ StartFetchErr \/ StartOk(snaps, progs) \/ Return \/ DisplayCancel
    \/ DisplayWake \/ DisplaySearch \/ DisplayEmit \/ DisplaySend \/ DisplayTimer
PollNext(snaps, progs) ==
    \/ PollExit \/ PollFetchErr \/ PollSendErr \/ PollSameTitle(snaps, progs)
    \/ PollNewTitle(snaps, progs) \/ PollWrite

EngineNext(snaps, progs) ==
    \/ DisplayNext(snaps, progs) \/ PollNext(snaps, progs)
    \/ TimerFire \/ GoSend
    \/ Tick \/ Cancel \/ Recv

Next == EngineNext(Snapshots, ProgressValues)

Spec == Init /\ [][Next]_vars

(***************************************************************************)
(* The engine under weak fairness of its goroutines and of a consumer that *)
(* keeps receiving (for update := range updateCh). The player reports the  *)
(* two titles of one artist, at the start of the track.                    *)
(***************************************************************************)
OneArtist == {t \in Snapshots : t.Artist = "x" /\ t.Album = "m"}
TrackStart == {0}

FairSpec ==
    /\ Init /\ [][EngineNext(OneArtist, TrackStart)]_vars
    /\ WF_vars(DisplayNext(OneArtist, TrackStart))
    /\ WF_vars(PollNext(OneArtist, TrackStart))
    /\ WF_vars(Recv)

(***************************************************************************)
(* The engine with a consumer that may quit: the key handler calls cancel  *)
(* and stops receiving, and the command's signal handler and deferred      *)
(* cancel call cancel as well                                              *)
(***************************************************************************)
QuitSpec == Init /\ [][EngineNext(OneArtist, TrackStart) \/ ConsumerQuit]_vars

(***************************************************************************)
(* The engine with a player whose reported position never goes back: each  *)
(* snapshot's progress is at least the progress recorded last              *)
(***************************************************************************)
Forward == {p \in ProgressValues : p >= currentProgressMs}

MonoSpec == Init /\ [][EngineNext(OneArtist, Forward)]_vars

(***************************************************************************)
(* The active-line search on its own: any sequence of up to MaxLen lines   *)
(* the parser can build, in source order, and a playback position          *)
(***************************************************************************)
StartValues == {0, 1000, 3000}
SearchProgress == {0, 500, 2500, 9000}
StartSeqs == UNION {[1..n -> StartValues] : n \in 1..MaxLen}
LinesOf(st) ==
    SetEndTimes([i \in DOMAIN st |->
                    [StartTimeMs |-> st[i], EndTimeMs |-> 0, Text |-> ""]])

SearchInit ==
    /\ EngineInit /\ CacheInit /\ ClientIdle /\ TokenIdle /\ ParseIdle
    /\ RaceIdle /\ UiIdle
    /\ sLines \in {LinesOf(st) : st \in StartSeqs}
    /\ sProgress \in SearchProgress
    /\ sIndex = -1

SearchRun ==
    /\ sIndex = -1
    /\ sIndex' = FindLine(sLines, sProgress)
    /\ UNCHANGED <<sLines, sProgress, engineVars, cacheVars, clientVars, tokenVars,
                   parseVars, raceVars, uiVars>>

SpecSearch == SearchInit /\ [][SearchRun]_vars

(***************************************************************************)
(* A client of one lyricUseCase calling GetLyrics up to MaxCalls times,    *)
(* one call after the other                                                *)
(***************************************************************************)
ClientArtists == {"a", "a|"}
ClientTitles == {"b", "|b"}

ClientInit ==
    /\ EngineInit /\ CacheInit /\ SearchIdle /\ ClientIdle /\ TokenIdle /\ ParseIdle
    /\ RaceIdle /\ UiIdle

ClientCall ==
    /\ calls < MaxCalls
    /\ \E artist \in ClientArtists, title \in ClientTitles, album \in Albums,
          cancelled \in BOOLEAN :
        \E o \in Outcomes(cancelled) :
          LET r == GetLyricsCall(cache, allocs, artist, title, album, o)
          IN /\ cache' = r.cache /\ allocs' = r.allocs
             /\ requests' = requests + (IF r.requested THEN 1 ELSE 0)
             /\ prev' = last
             /\ last' = [artist |-> artist, title |-> title, album |-> album,
                          ret |-> r.ret, ok |-> r.ok, err |-> r.err,
                          requested |-> r.requested,
                          outcome |-> IF r.requested THEN o ELSE Failure]
    /\ calls' = calls + 1
    /\ UNCHANGED <<engineVars, searchVars, tokenVars, parseVars,
                   raceVars, uiVars>>

SpecCache == ClientInit /\ [][ClientCall]_vars

(***************************************************************************)
(* Callers of GetCurrentlyPlayingDetails, each making one call, over one   *)
(* authRepository. The use cases take no lock of their own; the            *)
(* repository's RWMutex makes each GetToken and each StoreToken atomic.     *)
(***************************************************************************)
TokenInit ==
    /\ EngineInit /\ CacheInit /\ SearchIdle /\ ClientIdle /\ ParseIdle
    /\ RaceIdle /\ UiIdle
    /\ auth \in StoredAuths /\ now = StartNow
    /\ tc = [c \in Callers |-> IdleCaller]
    /\ tokReqs = 0 /\ inflight = {}
    /\ authFile = FileWith(auth)

\* GetCurrentlyPlayingDetails: GetToken and the expiry check
CheckToken(c) ==
    /\ tc[c].pc = "idle"
    /\ tc' = [tc EXCEPT ![c].seen = auth, ![c].local = auth, ![c].checkedAt = now,
                        ![c].expired = IsExpired(auth, now),
                        ![c].pc = AfterCheck(IsExpired(auth, now))]
    /\ UNCHANGED <<auth, authFile, now, tokReqs, inflight>>

\* RefreshToken: the stored credentials have no refresh token
RefreshTokenMissing(c) ==
    /\ tc[c].pc = "refresh"
    /\ ~HasRefreshToken(auth)
    /\ tc' = [tc EXCEPT ![c].old = auth, ![c].pc = "done",
                        ![c].ret = "failed to refresh token: no refresh token"]
    /\ UNCHANGED <<auth, authFile, now, tokReqs, inflight>>

\* RefreshToken: the request goes out to the token endpoint
RefreshTokenSend(c) ==
    /\ tc[c].pc = "refresh"
    /\ HasRefreshToken(auth)
    /\ tc' = [tc EXCEPT ![c].old = auth, ![c].pc = "awaiting"]
    /\ tokReqs' = tokReqs + 1
    /\ inflight' = inflight \cup {c}
    /\ UNCHANGED <<auth, authFile, now>>

\* a variant in which a failed refresh forgets the stored tokens
RefreshTokenFailClears(c) ==
    /\ tc[c].pc = "awaiting"
    /\ tc' = [tc EXCEPT ![c].pc = "done", ![c].ret = "failed to refresh token"]
    /\ inflight' = inflight \ {c}
    /\ auth' = [auth EXCEPT !.AccessToken = "", !.RefreshToken = ""]
    /\ UNCHANGED <<authFile, now, tokReqs>>

\* RefreshToken: no answer, an answer other than 200, or a body that does not parse
RefreshTokenFail(c) ==
    /\ tc[c].pc = "awaiting"
    /\ tc' = [tc EXCEPT ![c].pc = "done", ![c].ret = "failed to refresh token"]
    /\ inflight' = inflight \ {c}
    /\ UNCHANGED <<auth, authFile, now, tokReqs>>

\* RefreshToken: a 200 answer; StoreToken replaces r.auth and then writes the
\* file, and the write may fail
RefreshTokenStore(c) ==
    /\ tc[c].pc = "awaiting"
    /\ \E resp \in TokenResponses, saved \in BOOLEAN :
         LET newAuth == NewAuth(tc[c].old, resp, now)
         IN /\ auth' = newAuth
            /\ authFile' \in SaveToFile(authFile, newAuth, saved)
            /\ tc' = IF saved
                     THEN [tc EXCEPT ![c].resp = resp, ![c].local = newAuth,
                                     ![c].pc = "request"]
                     ELSE [tc EXCEPT ![c].resp = resp, ![c].pc = "done",
                                     ![c].ret = "failed to refresh token"]
    /\ inflight' = inflight \ {c}
    /\ UNCHANGED <<now, tokReqs>>

\* GetCurrentlyPlayingDetails: the currently-playing request and its answer
SendSnapshotRequest(c) ==
    /\ tc[c].pc = "request"
    /\ \E reply \in SnapshotReplies :
         tc' = [tc EXCEPT ![c].sent = tc[c].local.AccessToken, ![c].pc = "done",
                          ![c].ret = IF SnapshotError(reply) = "" THEN "ok"
                                     ELSE SnapshotError(reply)]
    /\ UNCHANGED <<auth, authFile, now, tokReqs, inflight>>

ClockTick ==
    /\ now < StartNow + MaxTicks
    /\ now' = now + 1
    /\ UNCHANGED <<auth, authFile, tc, tokReqs, inflight>>

TokenNext ==
    /\ \/ \E c \in Callers :
            \/ CheckToken(c)
            \/ RefreshTokenMissing(c)
            \/ RefreshTokenSend(c)
            \/ RefreshTokenFail(c)
            \/ RefreshTokenStore(c)
            \/ SendSnapshotRequest(c)
       \/ ClockTick
    /\ UNCHANGED <<engineVars, cacheVars, searchVars, clientVars, parseVars,
                   raceVars, uiVars>>

SpecToken == TokenInit /\ [][TokenNext]_vars

(***************************************************************************)
(* The repository on its own: the two operations that change r.auth        *)
(***************************************************************************)
ClientIDs == {"id", "id2"}
ClientSecrets == {"secret", "secret2"}

\* r.auth.ClientID, r.auth.ClientSecret = ...; return r.saveToFile()
StoreClientCredentials ==
    /\ \E clientID \in ClientIDs, clientSecret \in ClientSecrets, saved \in BOOLEAN :
         /\ auth' = [auth EXCEPT !.ClientID = clientID, !.ClientSecret = clientSecret]
         /\ authFile' \in SaveToFile(authFile, auth', saved)
    /\ UNCHANGED <<now, tc, tokReqs, inflight>>

\* r.auth = auth; return r.saveToFile()
StoreToken ==
    /\ \E resp \in TokenResponses, saved \in BOOLEAN :
         /\ auth' = NewAuth(auth, resp, now)
         /\ authFile' \in SaveToFile(authFile, auth', saved)
    /\ UNCHANGED <<now, tc, tokReqs, inflight>>

StoreNext ==
    /\ StoreClientCredentials \/ StoreToken
    /\ UNCHANGED <<engineVars, cacheVars, searchVars, clientVars, parseVars,
                   raceVars, uiVars>>

SpecStore == TokenInit /\ [][StoreNext]_vars

(***************************************************************************)
(* The synced-lyrics parser run on texts of up to MaxSrcLines lines        *)
(***************************************************************************)
MaxSrcLines == 3

Stamp(m, sc, f) == <<Sym("["), Num(m), Sym(":"), Num(sc), Sym("."), Num(f), Sym("]")>>

Hello == Stamp(0, 1, 50) \o <<Word("Hello")>>
World == Stamp(0, 3, 0) \o <<Word("World")>>

TagLine == <<Sym("["), Word("ar"), Sym(":"), Word("x"), Sym("]")>>      \* "[ar:x]"

\* "[00:06.00x]t"
TrailingStamp ==
    <<Sym("["), Num(0), Sym(":"), Num(6), Sym("."), Num(0), Word("x"), Sym("]"),
      Word("t")>>

RawLines ==
    {Hello, World, TagLine, TrailingStamp,
     Stamp(1, 2, 3),                                    \* "[01:02.03]"
     <<>>, <<Space>>,                                   \* blank
     <<Word("Hello")>>,                                 \* no bracket at all
     <<Space>> \o Hello,                                \* " [00:01.50]Hello"
     <<Sym("["), Num(0), Sym(":"), Num(4), Sym("."), Num(0), Word("x")>>,
     <<Sym("["), Num(0), Sym(":"), Num(5), Sym("]"), Word("t")>>,      \* "[00:05]t"
     <<Sym("["), Space, Num(0), Sym(":"), Num(7), Sym("."), Num(0), Sym("]"),
       Word("s")>>}                                     \* "[ 00:07.00]s"

RawTexts == UNION {[1..n -> RawLines] : n \in 0..MaxSrcLines}

ParseInit ==
    /\ EngineInit /\ CacheInit /\ SearchIdle /\ ClientIdle /\ TokenIdle
    /\ RaceIdle /\ UiIdle
    /\ pSrc \in RawTexts /\ pLines = <<>> /\ pDone = FALSE

ParseRun ==
    /\ ~pDone
    /\ pLines' = ParseSynced(pSrc)
    /\ pDone' = TRUE
    /\ UNCHANGED <<pSrc, engineVars, cacheVars, searchVars, clientVars, tokenVars,
                   raceVars, uiVars>>

SpecParse == ParseInit /\ [][ParseRun]_vars

(***************************************************************************)
(* Properties of GetLyricChannel                                           *)
(***************************************************************************)
\* the updates a step sends on updateCh (into the buffer, or parked)
SentNow ==
    IF Len(updateCh') > Len(updateCh) THEN {updateCh'[Len(updateCh')]}
    ELSE IF Len(sendq') > Len(sendq) THEN {pending'[sendq'[Len(sendq')]]}
    ELSE {}

\* C1: no goroutine ever sends on updateCh after close(updateCh) has run (the
\* runtime answers such a send with the panic "send on closed channel")
C1_NoSendAfterClose == panicked # "send on closed channel"

\* C2: once the context is cancelled, the display goroutine eventually ends
\* and updateCh is eventually closed
C2_CancelLeadsToClose == ctxDone ~> (dpc = "done" /\ closed)

\* C2, its case: the loop ran, emitted a line, and returned on cancellation
C2_Witness ==
    /\ ctxDone /\ closed /\ dpc = "done" /\ panicked = "none"
    /\ polls > 0 /\ lastLine.idx >= 0

\* C3: updateCh is closed by an engine that returned only after the caller
\* cancelled the context
C3_ClosedOnlyAfterCancel == (closed /\ panicked = "none") => ctxDone

\* C4: when the display loop wakes on the timer armed by its latest line
\* update, no poll cycle having run in between, it emits the next line
C4_TimerFireEmitsNextLine ==
    [][(/\ dpc = "search" /\ dpc' # "search"
        /\ wokenBy = "fresh" /\ quiet
        /\ ppc = "select" /\ lyrics.id = lastLine.id)
        => (dpc' = "emit" /\ currentLineIndex' = lastLine.idx + 1)]_vars

\* C5: when the display loop searches a lyric set acquired for a new title,
\* from which it has emitted nothing yet, the poll cycle being complete, it
\* emits a line of that set, whatever index it emitted last
C5_NewTrackEmits ==
    [][(/\ dpc = "search" /\ dpc' # "search"
        /\ lyrics # NilLyrics /\ lyrics.id # lastLine.id
        /\ lastLine.idx >= 0 /\ ppc = "select")
        => dpc' = "emit"]_vars

\* C6: a line update is sent only with an index other than the index of the
\* line update sent last
C6_EmitOnlyOnChange ==
    [][\A u \in SentNow : IsLineUpdate(u) => u.LineIndex # lastLine.idx]_vars

\* C6, its case: after a line update a poll of the same title has written its
\* position, the display loop has handled the signal and has sent nothing,
\* and a second poll cycle is over as well
C6_Witness ==
    /\ polls = 2 /\ acqCount = 1 /\ ppc = "select" /\ dpc = "select"
    /\ lastLine.idx >= 0 /\ ~quiet
    /\ internalUpdateCh = <<>> /\ goSenders = 0
    /\ lyrics.id = lastLine.id /\ currentLineIndex = lastLine.idx

\* C7: the step that follows a failed fetch of the poll goroutine sends one
\* error update, leaves title, lyrics, progress and anchor alone, raises no
\* signal, and leaves the goroutine in its loop
C7_FailedFetchOneError ==
    [][(ppc = "errTrack" /\ ppc' # "errTrack")
        => (/\ \E u \in SentNow : SentNow = {u} /\ u.IsError
            /\ UNCHANGED <<lastTitle, sharedVars, internalUpdateCh>>
            /\ ppc' \in {"select", "blocked"})]_vars

\* C8: the engine calls GetLyrics in exactly the steps in which it obtains a
\* snapshot whose title is not the title of the snapshot before
C8_AcquireIffTitleChanged ==
    [][(acqCount' # acqCount) <=> (lastTitle' # lastTitle)]_vars

\* C8, its case: the acquisition for the title failed and a poll has obtained
\* a snapshot of that title again, without another acquisition
C8_Witness ==
    /\ ppc = "write" /\ lyrics = NilLyrics /\ acqCount = 1 /\ polls > 0

(***************************************************************************)
(* Properties of the active-line search                                    *)
(***************************************************************************)
Contains(l, p) == l.StartTimeMs <= p /\ p < l.EndTimeMs
MinOf(S) == CHOOSE x \in S : \A y \in S : x <= y
MaxOf(S) == CHOOSE x \in S : \A y \in S : x >= y
Hits == {i \in DOMAIN sLines : Contains(sLines[i], sProgress)}
Started == {i \in DOMAIN sLines : sLines[i].StartTimeMs <= sProgress}
\* the lines before the first line that starts after the position
Scanned == {i \in DOMAIN sLines : \A j \in 1..i : j \in Started}
Ordered ==
    \A i \in 1..(Len(sLines) - 1) : sLines[i].StartTimeMs <= sLines[i + 1].StartTimeMs

\* C9: the index found is that of the first line whose interval contains the
\* position, or, when no interval contains it, that of the last line that
\* starts at or before the position
C9_FirstHitElseLastStarted ==
    sIndex >= 0 =>
        IF Hits # {} THEN sIndex + 1 = MinOf(Hits)
        ELSE Started # {} /\ sIndex + 1 = MaxOf(Started)

\* C9, as amended: only the lines before the first line that starts after the
\* position are looked at; the index found is that of the first of them whose
\* interval contains the position, else that of the last of them, else 0.
\* For lines in non-decreasing order of start, with a position at or after
\* the first start, that is the index the first statement names.
C9_ScannedPrefix ==
    sIndex >= 0 =>
        /\ sIndex + 1 = IF Hits \cap Scanned # {} THEN MinOf(Hits \cap Scanned)
                         ELSE IF Scanned # {} THEN MaxOf(Scanned)
                         ELSE 1
        /\ (Ordered /\ Started # {}) =>
              sIndex + 1 = IF Hits # {} THEN MinOf(Hits) ELSE MaxOf(Started)

\* C9, its case: the position is before the start of the first of several lines
C9_Witness ==
    /\ sIndex = 0 /\ Len(sLines) >= 2 /\ Ordered
    /\ sLines[1].StartTimeMs > sProgress

(***************************************************************************)
(* Properties of GetLyrics                                                 *)
(***************************************************************************)
\* C10: a call that follows a successful call for the same artist and title
\* succeeds without a provider request and returns the object the call before
\* returned; when these were the first two calls, one request was issued
C10_SecondCallFromCache ==
    (calls >= 2 /\ prev.ok /\ prev.artist = last.artist /\ prev.title = last.title)
        => (/\ last.ok /\ ~last.requested /\ last.ret = prev.ret
            /\ calls = 2 => requests = 1)

\* C10, its case: two calls for the same artist and title under different
\* albums, the first of which obtained a lyric set without lines
C10_Witness ==
    /\ calls = 2 /\ prev.ok /\ prev.requested /\ prev.ret.Lines = <<>>
    /\ prev.artist = last.artist /\ prev.title = last.title
    /\ prev.album # last.album

\* the call asked the provider and got the candidate list last.outcome.cands
Answered(call) == call.requested /\ ~call.outcome.err

\* C19: a call that misses the cache and gets at least one candidate returns
\* the first candidate in provider order that has synced lyrics, and the first
\* candidate when none has; in that case the result is unsynced, without lines
C19_FirstSyncedElseFirst ==
    (calls >= 1 /\ Answered(last) /\ last.outcome.cands # <<>>) =>
        LET r == last.outcome.cands
            synced == {i \in DOMAIN r : r[i].SyncedLyrics}
        IN /\ last.ok
           /\ synced # {} => last.ret.ID = r[MinOf(synced)].Id /\ last.ret.Synced
           /\ synced = {} =>
                last.ret.ID = r[1].Id /\ ~last.ret.Synced /\ last.ret.Lines = <<>>

\* one call chose the second of three candidates, the first with synced lyrics
\* of two; the call before chose the first of two candidates without
C19_Witness ==
    /\ calls >= 2
    /\ Answered(prev) /\ prev.outcome.cands = <<CandPlainToo, CandPlain>>
    /\ prev.ret.ID = 4 /\ ~prev.ret.Synced
    /\ Answered(last) /\ last.outcome.cands = <<CandPlain, CandB, CandA>>
    /\ last.ret.ID = 2 /\ last.ret.Synced

\* C20: a call whose provider request returns zero candidates fails with the
\* not-found error and leaves the cache as it was, and a call for the same
\* artist and title that follows it asks the provider again
C20_NotFoundNotCached ==
    /\ (calls >= 1 /\ Answered(last) /\ last.outcome.cands = <<>>) =>
          /\ ~last.ok /\ last.err = "no lyrics found" /\ last.ret = NilLyrics
          /\ CacheKey(last.artist, last.title) \notin DOMAIN cache
    /\ (calls >= 2 /\ Answered(prev) /\ prev.outcome.cands = <<>>
          /\ prev.artist = last.artist /\ prev.title = last.title) =>
          last.requested

C20_Witness ==
    /\ calls = 2 /\ requests = 2 /\ cache = EmptyCache
    /\ Answered(prev) /\ prev.outcome.cands = <<>> /\ prev.err = "no lyrics found"
    /\ prev.artist = last.artist /\ prev.title = last.title
    /\ Answered(last) /\ last.outcome.cands = <<>>

(***************************************************************************)
(* Properties of the token refresh                                         *)
(***************************************************************************)
\* C11: at most one token refresh is in flight at any time: of two callers that
\* both found the stored credentials expired, only one has a refresh request
\* out at the token endpoint
C11_OneRefreshInFlight == Cardinality(inflight) <= 1

\* C12: the expiry check answers true exactly when ExpiresAt is 0 or
\* ExpiresAt <= now: true at the boundary ExpiresAt = now, false for every
\* later ExpiresAt
C12_ExpiredIffZeroOrPast ==
    \A c \in Callers :
        tc[c].pc # "idle" =>
            (tc[c].expired <=>
                (tc[c].seen.ExpiresAt = 0 \/ tc[c].seen.ExpiresAt <= tc[c].checkedAt))

\* one caller checked credentials at the boundary and found them expired, the
\* other checked credentials with a later ExpiresAt and found them valid
C12_Witness ==
    \E c, d \in Callers :
        /\ tc[c].pc # "idle" /\ tc[c].expired
        /\ tc[c].seen.ExpiresAt = tc[c].checkedAt
        /\ tc[d].pc # "idle" /\ ~tc[d].expired
        /\ tc[d].seen.ExpiresAt > tc[d].checkedAt

RefreshErrors == {"failed to refresh token", "failed to refresh token: no refresh token"}

\* C13: a snapshot request is sent only after the expiry check; a caller that
\* found the credentials expired sends it with the access token its refresh
\* returned, a caller that found them valid with the token it read; a caller
\* whose refresh failed sends no request and returns an error
C13_RequestAfterCheck ==
    \A c \in Callers :
        /\ tc[c].sent # NoToken =>
              /\ tc[c].pc = "done"
              /\ IF tc[c].expired
                 THEN tc[c].resp # NoResponse /\ tc[c].sent = tc[c].resp.access_token
                 ELSE tc[c].resp = NoResponse /\ tc[c].sent = tc[c].seen.AccessToken
        /\ (tc[c].pc = "done" /\ tc[c].sent = NoToken) =>
              tc[c].expired /\ tc[c].ret \in RefreshErrors
        /\ tc[c].ret \in RefreshErrors => tc[c].sent = NoToken

\* one caller refreshed and sent the request with the new token, the other's
\* refresh failed after a request to the token endpoint
C13_Witness ==
    \E c, d \in Callers :
        /\ tc[c].expired /\ tc[c].sent \in {"at1", "at2"}
        /\ tc[d].expired /\ tc[d].ret = "failed to refresh token"
        /\ tc[d].sent = NoToken

\* C14: RefreshToken on stored credentials with an empty refresh token fails,
\* sends nothing to the token endpoint and leaves the stored credentials alone
C14_NoRefreshTokenNoRequest ==
    [][\A c \in Callers :
         (tc[c].pc = "refresh" /\ auth.RefreshToken = "" /\ tc'[c].pc # "refresh") =>
            /\ tc'[c].ret = "failed to refresh token: no refresh token"
            /\ tc'[c].pc = "done" /\ tc'[c].sent = NoToken
            /\ tokReqs' = tokReqs /\ inflight' = inflight
            /\ auth' = auth]_vars

C14_Witness ==
    \E c \in Callers :
        /\ tc[c].ret = "failed to refresh token: no refresh token"
        /\ tc[c].old.RefreshToken = "" /\ tc[c].old.ClientID = "id"
        /\ tokReqs = 0 /\ auth = tc[c].old

\* C15: a successful RefreshToken stores and returns credentials with the old
\* clientID and clientSecret, the response's accessToken and scope, expiry
\* now + expires_in, and the response's refreshToken when it is non-empty and
\* the old refresh token otherwise
C15_RefreshedCredentials ==
    [][\A c \in Callers :
         (tc[c].pc = "awaiting" /\ tc'[c].pc = "request") =>
            LET n == tc'[c].local
                r == tc'[c].resp
                o == tc[c].old
            IN /\ auth' = n
               /\ n.ClientID = o.ClientID /\ n.ClientSecret = o.ClientSecret
               /\ n.AccessToken = r.access_token /\ n.Scope = r.scope
               /\ n.ExpiresAt = now + r.expires_in
               /\ r.refresh_token # "" => n.RefreshToken = r.refresh_token
               /\ r.refresh_token = "" => n.RefreshToken = o.RefreshToken]_vars

\* a refresh succeeded on a response without a refresh token, and one on a
\* response with one
C15_Witness ==
    \E c, d \in Callers :
        /\ tc[c].sent # NoToken /\ tc[c].resp \in TokenResponses
        /\ tc[c].resp.refresh_token = "" /\ tc[c].local.RefreshToken = "rt0"
        /\ tc[d].sent # NoToken /\ tc[d].resp \in TokenResponses
        /\ tc[d].resp.refresh_token = "rt1" /\ tc[d].local.RefreshToken = "rt1"

(***************************************************************************)
(* Polling while nothing is playing                                        *)
(***************************************************************************)
\* C16: the poll cycle whose snapshot request was answered 204 (no track
\* playing) emits no update with IsError set
C16_NoTrackNoErrorUpdate ==
    [][(perr = "no track currently playing" /\ perr' # perr)
        => \A u \in SentNow : ~u.IsError]_vars

(***************************************************************************)
(* Properties of the synced-lyrics parser                                  *)
(***************************************************************************)
IsTimed(sl) == sl.kind = "timed"

\* C17: every kept line starts at minutes*60000 + seconds*1000 + fraction*10,
\* ends where the next kept line starts, and the last kept line ends TrailMs
\* after its start; "[00:01.50]Hello", "[00:03.00]World" gives starts 1500
\* and 3000 and ends 3000 and 8000
C17_StartAndEndTimes ==
    pDone =>
        LET kept == SelectSeq(ScanAll(pSrc), IsTimed)
        IN /\ Len(pLines) = Len(kept)
           /\ \A i \in DOMAIN pLines :
                /\ pLines[i].StartTimeMs =
                       kept[i].min * 60000 + kept[i].sec * 1000 + kept[i].frac * 10
                /\ pLines[i].EndTimeMs =
                       IF i < Len(pLines) THEN pLines[i + 1].StartTimeMs
                       ELSE pLines[i].StartTimeMs + 5000
           /\ pSrc = <<Hello, World>> =>
                /\ pLines[1].StartTimeMs = 1500 /\ pLines[1].EndTimeMs = 3000
                /\ pLines[2].StartTimeMs = 3000 /\ pLines[2].EndTimeMs = 8000

C17_Witness ==
    /\ pDone /\ pSrc = <<Hello, World>>
    /\ Len(pLines) = 2
    /\ pLines[1] = [StartTimeMs |-> 1500, EndTimeMs |-> 3000, Text |-> <<Word("Hello")>>]
    /\ pLines[2] = [StartTimeMs |-> 3000, EndTimeMs |-> 8000, Text |-> <<Word("World")>>]

\* a line of the form [minutes:seconds.fraction]text, nothing else between
\* the brackets
ExactStamp(line) ==
    /\ Len(line) >= 7
    /\ line[1] = Sym("[") /\ line[2].t = "num" /\ line[3] = Sym(":")
    /\ line[4].t = "num" /\ line[5] = Sym(".") /\ line[6].t = "num"
    /\ line[7] = Sym("]")

LeadingStamp(line) ==
    /\ \E i \in DOMAIN line : line[i].t # "space"
    /\ line[1] = Sym("[")
    /\ \E cb \in DOMAIN line :
        /\ line[cb] = Sym("]") /\ \A x \in 1..(cb - 1) : line[x] # Sym("]")
        /\ \E i, j, k \in 2..(cb - 1) :
            /\ i + 1 < j /\ j + 1 < k
            /\ line[i].t = "num" /\ line[j].t = "num" /\ line[k].t = "num"
            /\ line[i + 1] = Sym(":") /\ line[j + 1] = Sym(".")
            /\ \A x \in (2..(i - 1)) \cup ((i + 2)..(j - 1)) \cup ((j + 2)..(k - 1)) :
                 line[x].t = "space"

TextAfterBracket(line) ==
    LET cb == CHOOSE x \in DOMAIN line :
                 line[x] = Sym("]") /\ \A y \in 1..(x - 1) : line[y] # Sym("]")
    IN SubSeq(line, cb + 1, Len(line))

RaceTitles == {"b", "c"}

RaceInit ==
    /\ EngineInit /\ CacheInit /\ SearchIdle /\ ClientIdle /\ TokenIdle /\ ParseIdle
    /\ RaceIdle /\ UiIdle

\* RLock; cachedLyrics, found := l.cache[cacheKey]; RUnlock; if found return
LookupCache(g) ==
    /\ gl[g].pc = "idle"
    /\ \E title \in RaceTitles :
         LET key == CacheKey("a", title)
         IN gl' = [gl EXCEPT ![g] =
                IF key \in DOMAIN cache
                THEN [pc |-> "done", key |-> key, at |-> Len(stored),
                      ret |-> cache[key], ok |-> TRUE, requested |-> FALSE]
                ELSE [pc |-> "fetch", key |-> key, at |-> Len(stored),
                      ret |-> NilLyrics, ok |-> FALSE, requested |-> FALSE]]
    /\ UNCHANGED <<stored, cache, allocs, engineVars, searchVars, clientVars,
                   tokenVars, parseVars, uiVars>>

\* the provider request and the construction of the Lyrics value
FetchLyrics(g) ==
    /\ gl[g].pc = "fetch"
    /\ \E o \in Outcomes(FALSE) :
         IF o.err \/ o.cands = <<>>
         THEN /\ gl' = [gl EXCEPT ![g].pc = "done", ![g].requested = TRUE]
              /\ allocs' = allocs
         ELSE LET n == Allocated(allocs, gl[g].key) + 1
                  l == MakeLyrics(o.cands, [key |-> gl[g].key, n |-> n])
              IN /\ gl' = [gl EXCEPT ![g].pc = "store", ![g].requested = TRUE,
                                     ![g].ret = l, ![g].ok = TRUE]
                 /\ allocs' = CacheStore(allocs, gl[g].key, n)
    /\ UNCHANGED <<stored, cache, engineVars, searchVars, clientVars,
                   tokenVars, parseVars, uiVars>>

\* Lock; l.cache[cacheKey] = lyrics; Unlock; return lyrics, nil
StoreCache(g) ==
    /\ gl[g].pc = "store"
    /\ cache' = CacheStore(cache, gl[g].key, gl[g].ret)
    /\ stored' = Append(stored, [who |-> g, key |-> gl[g].key])
    /\ gl' = [gl EXCEPT ![g].pc = "done"]
    /\ UNCHANGED <<allocs, engineVars, searchVars, clientVars,
                   tokenVars, parseVars, uiVars>>

RaceNext == \E g \in Fetchers : LookupCache(g) \/ FetchLyrics(g) \/ StoreCache(g)

SpecRace == RaceInit /\ [][RaceNext]_vars

(***************************************************************************)
(* PipeLyricModel: the interactive consumer of the update channel. Each    *)
(* update read by waitForUpdate goes through Update, after which the       *)
(* framework renders View.                                                 *)
(***************************************************************************)
MaxUpdates == 3

UiLyrics == MakeLyrics(<<CandA>>, [key |-> "x|A", n |-> 1])
UiUpdates ==
    {ErrUpdate("failed to get lyrics"), NoLyricsUpdate,
     LineUpdate(UiLyrics, 0), LineUpdate(UiLyrics, 1)}

\* the updates for which Update calls os.WriteFile (lines 71-83); a failed
\* write leaves the file as it was or truncated
WritesSideFile(msg) == ~msg.IsError /\ msg.Lyrics # NilLyrics /\ msg.Text # ""

\* Update for a *usecase.LyricUpdate; wrote tells whether os.WriteFile succeeded
UpdateModel(m, msg, wrote) ==
    IF msg.IsError
    THEN [m EXCEPT !.err = msg.ErrorMsg, !.currentLine = "Error: " \o msg.ErrorMsg]
    ELSE IF msg.Lyrics # NilLyrics
    THEN [m EXCEPT !.lyrics = msg.Lyrics, !.currentLineIdx = msg.LineIndex,
                   !.currentLine = msg.Text,
                   !.err = IF msg.Text # "" /\ ~wrote THEN "error writing to file"
                           ELSE m.err]
    ELSE m

\* View: the error screen, or title, current line and footer
View(m) ==
    IF m.quitting THEN <<>>
    ELSE IF m.err # "" THEN <<"Error: " \o m.err, "Press q to quit.">>
    ELSE <<IF m.lyrics # NilLyrics THEN "Artist - Name" ELSE "Spotify Lyrics",
           m.currentLine, "Press q to quit">>

UiInit ==
    /\ EngineInit /\ CacheInit /\ SearchIdle /\ ClientIdle /\ TokenIdle /\ ParseIdle
    /\ RaceIdle
    /\ ui = NewModel /\ shown = View(NewModel) /\ got = <<>> /\ sideFile = ""

\* waitForUpdate delivers an update, Update handles it, View renders
UiReceive ==
    /\ ~ui.quitting /\ Len(got) < MaxUpdates
    /\ \E msg \in UiUpdates, wrote \in BOOLEAN :
         /\ ~WritesSideFile(msg) => wrote
         /\ ui' = UpdateModel(ui, msg, wrote)
         /\ got' = Append(got, [u |-> msg, wrote |-> wrote])
         /\ IF ~WritesSideFile(msg) THEN sideFile' = sideFile
            ELSE IF wrote THEN sideFile' = msg.Text
            ELSE sideFile' \in {sideFile, ""}
    /\ shown' = View(ui')
    /\ UNCHANGED <<engineVars, cacheVars, searchVars, clientVars, tokenVars,
                   parseVars, raceVars>>

\* Update for the keys "q" and "ctrl+c"
UiKeyQuit ==
    /\ ~ui.quitting
    /\ ui' = [ui EXCEPT !.quitting = TRUE]
    /\ shown' = View(ui')
    /\ UNCHANGED <<got, sideFile, engineVars, cacheVars, searchVars, clientVars,
                   tokenVars, parseVars, raceVars>>

UiNext == UiReceive \/ UiKeyQuit

SpecUI == UiInit /\ [][UiNext]_vars

(***************************************************************************)
(* Properties of the emissions                                             *)
(***************************************************************************)
\* C21: while the reported position never goes back, a line update for the
\* lyric set of the line update before it carries a greater line index
C21_IndexesIncrease ==
    [][\A u \in SentNow :
         (IsLineUpdate(u) /\ u.Lyrics.id = lastLine.id) =>
             u.LineIndex > lastLine.idx]_vars

\* two line updates of one lyric set wait in updateCh, index 0 before index 1
C21_Witness ==
    \E i, j \in DOMAIN updateCh :
        /\ i < j
        /\ IsLineUpdate(updateCh[i]) /\ IsLineUpdate(updateCh[j])
        /\ updateCh[i].Lyrics.id = updateCh[j].Lyrics.id
        /\ updateCh[i].LineIndex = 0 /\ updateCh[j].LineIndex = 1
        /\ lastLine.idx = 1 /\ currentProgressMs = 2500

(***************************************************************************)
(* Properties of cancellation                                              *)
(***************************************************************************)
\* C22: close(updateCh) runs at most once, by the returning display
\* goroutine, however often cancel is called; a cancel on a cancelled context
\* changes nothing of the engine
C22_ClosedOnce ==
    [][/\ panicked' # "close of closed channel"
       /\ closed => closed'
       /\ closed' # closed => (dpc # "done" /\ dpc' = "done")
       /\ (ctxDone /\ Cancel) => UNCHANGED vars
       /\ (ctxDone /\ ConsumerQuit) =>
             UNCHANGED <<ctxDone, chanVars, closed, panicked, dpc, ppc, sharedVars,
                         sigVars, currentLineIndex, activeIndex, lineCopy>>]_vars

\* the consumer quit, which cancelled the context, and both goroutines ended,
\* the channel closed
C22_Witness ==
    /\ ctxDone /\ ~reading /\ closed /\ panicked = "none"
    /\ dpc = "done" /\ ppc = "done" /\ lastLine.idx >= 0

\* C23: once the context is cancelled and both goroutines have ended, no
\* timer armed by the display loop is left to fire
C23_NoTimerLeftAfterCancel ==
    (ctxDone /\ dpc = "done" /\ ppc = "done") => timers = EmptyBag

(***************************************************************************)
(* Properties of concurrent GetLyrics calls                                *)
(***************************************************************************)
\* the goroutine whose write under key is the latest among the first n writes
LastWriter(key, n) ==
    LET idx == {i \in 1..n : stored[i].key = key}
    IN IF idx = {} THEN ""
       ELSE stored[CHOOSE i \in idx : \A j \in idx : j <= i].who

Writers(key) == {stored[i].who : i \in {j \in DOMAIN stored : stored[j].key = key}}

\* C24: when calls for one key overlap and both miss, the cache holds under
\* that key exactly the result of the call that wrote last, a whole result of
\* one of the calls, and a call that looks the key up afterwards returns the
\* entry it found without asking the provider.
C24_LastWriteWins ==
    /\ \A title \in RaceTitles :
         LET key == CacheKey("a", title)
             w == LastWriter(key, Len(stored))
         IN /\ key \in DOMAIN cache <=> w # ""
            /\ w # "" => /\ cache[key] = gl[w].ret
                         /\ cache[key] \in {gl[g].ret : g \in Writers(key)}
                         /\ cache[key] # NilLyrics
    /\ \A g \in Fetchers :
         LET w == LastWriter(gl[g].key, gl[g].at)
         IN (gl[g].pc # "idle" /\ w # "") =>
              /\ gl[g].pc = "done" /\ gl[g].ok /\ ~gl[g].requested
              /\ gl[g].ret = gl[w].ret

C24_Witness ==
    \E g1, g2, g3 \in Fetchers :
        /\ Len(stored) = 2 /\ stored[1].who = g1 /\ stored[2].who = g2
        /\ stored[1].key = stored[2].key
        /\ gl[g1].at = 0 /\ gl[g2].at = 0
        /\ gl[g1].ret # gl[g2].ret
        /\ gl[g3].pc = "done" /\ gl[g3].at = 2 /\ gl[g3].key = stored[2].key
        /\ gl[g3].ret = gl[g2].ret /\ ~gl[g3].requested

(***************************************************************************)
(* Properties of the interactive consumer                                  *)
(***************************************************************************)
\* C25: an error update does not end the stream, and a lyric line received
\* later is rendered with its display text: whenever the latest update read
\* is a line update (and every file write so far succeeded), the view shows
\* that update's text.
C25_LaterLineRendered ==
    (/\ got # <<>> /\ ~ui.quitting
     /\ IsLineUpdate(got[Len(got)].u)
     /\ \A i \in DOMAIN got : got[i].wrote)
    => (Len(shown) = 3 /\ shown[2] = got[Len(got)].u.Text)

(***************************************************************************)
(* Properties of the poll goroutine                                        *)
(***************************************************************************)
\* C26: the internal signal channel never holds more than one signal, and a
\* poll cycle that reaches its signalling statement while a signal is pending
\* goes on to its next select at once, leaving the channel as it was and no
\* sender parked.
C26_SignalCoalesced ==
    [][/\ Len(internalUpdateCh') <= 1
       /\ (PollWrite /\ Len(internalUpdateCh) = 1) =>
             /\ internalUpdateCh' = internalUpdateCh
             /\ ppc' = "select"
             /\ goSenders' = goSenders /\ sendq' = sendq]_vars

C26_Witness ==
    /\ ppc = "write" /\ Len(internalUpdateCh) = 1 /\ pprog # currentProgressMs
    /\ Running /\ ~ctxDone /\ dpc # "done"

\* C27: a poll cycle whose fetch succeeded, the acquisition for a new title
\* having failed or not, leaves the snapshot's progress as current progress,
\* the anchor at now minus that progress, and a signal pending.
C27_SuccessfulFetchRecordsProgress ==
    [][(ppc \in {"write", "errLyrics"} /\ ppc' # ppc /\ ~closed) =>
          /\ currentProgressMs' = pprog
          /\ startTime' = 0 - pprog
          /\ internalUpdateCh' # <<>>]_vars

(***************************************************************************)
(* Properties of seeking and of the first emission                         *)
(***************************************************************************)
\* the lines whose interval holds position p, as indexes from 0
Holding(ls, p) ==
    {i - 1 : i \in {j \in DOMAIN ls : ls[j].StartTimeMs <= p /\ p < ls[j].EndTimeMs}}

InFlight ==
    {updateCh[i] : i \in DOMAIN updateCh} \cup {pending[sendq[i]] : i \in DOMAIN sendq}

\* C30: every update that is not an error update and not the notice "No
\* lyrics to display." carries a lyric set, an index within that set's lines,
\* that set's line at the index, and that line's text between the padding.
C30_LineUpdatesWellFormed ==
    \A u \in InFlight :
        (~u.IsError /\ u # NoLyricsUpdate) =>
            /\ u.Lyrics # NilLyrics
            /\ u.LineIndex \in 0..(Len(u.Lyrics.Lines) - 1)
            /\ u.Line = u.Lyrics.Lines[u.LineIndex + 1]
            /\ u.Text = "      " \o u.Line.Text \o "      "

(***************************************************************************)
(* Properties of the lines of a lyric set                                  *)
(***************************************************************************)
\* C31: the lines GetLyrics builds from a synced-lyrics text are in
\* non-decreasing order of StartTimeMs, and no line ends before it starts.
C31_LinesOrdered ==
    pDone =>
        /\ \A i, j \in DOMAIN pLines :
               i < j => pLines[i].StartTimeMs <= pLines[j].StartTimeMs
        /\ \A i \in DOMAIN pLines : pLines[i].StartTimeMs <= pLines[i].EndTimeMs

(***************************************************************************)
(* Properties of the side file                                             *)
(***************************************************************************)
\* C32: when the latest update received has a non-empty display text and no
\* write has failed, the side file holds that text.
C32_TextMirrored ==
    (/\ got # <<>>
     /\ got[Len(got)].u.Text # ""
     /\ \A i \in DOMAIN got : got[i].wrote)
    => sideFile = got[Len(got)].u.Text

(***************************************************************************)
(* Properties of the stored credentials                                    *)
(***************************************************************************)
\* C33: the credentials in the file are the credentials in memory, after a
\* store whose write succeeded and after a store whose write failed alike.
C33_PersistedEqualsMemory == LoadFromFile(authFile) = auth

(***************************************************************************)
(* Properties of the shared lyric set                                      *)
(***************************************************************************)
\* C34: the display loop never reads the lines of a nil lyric set (the
\* runtime answers such a read with a nil-dereference panic), however the
\* poll goroutine's assignments to lyrics interleave with it.
C34_NoNilDereference == panicked # "nil dereference"

(***************************************************************************)
(* Properties of the goroutines after cancellation                         *)
(***************************************************************************)
\* C35: after cancellation no goroutine of the engine is left in a send that
\* can never complete. Only the display loop receives from internalUpdateCh,
\* so once it has returned, a helper goroutine waiting to send on the full
\* channel waits for ever: there is no such goroutine.
C35_NoSenderLeftBlocked ==
    (Running /\ ctxDone /\ dpc = "done") =>
        (goSenders = 0 \/ Len(internalUpdateCh) < InternalChCap)

(***************************************************************************)
(* Properties of the pairing of lyric set and progress                     *)
(***************************************************************************)
\* C36: whenever the display loop computes the active line of the current
\* lyric set, the progress it uses was recorded from a snapshot of the track
\* the set was acquired for.
C36_ProgressOfSameTrack ==
    [][(dpc = "search" /\ dpc' # "search" /\ lyrics # NilLyrics)
          => progTitle = currentSong]_vars

(***************************************************************************)
(* Properties of the notice "No lyrics to display."                        *)
(***************************************************************************)
\* C37: the notice is sent at most once per track: the notices waiting in
\* updateCh are never more than the tracks the engine has acquired lyrics for.
C37_NoticeOncePerTrack ==
    Cardinality({i \in DOMAIN updateCh : updateCh[i] = NoLyricsUpdate}) <= acqCount

(***************************************************************************)
(* Properties of the next-line timers                                      *)
(***************************************************************************)
\* C38: at most one timer started by time.AfterFunc is waiting to fire.
C38_OneTimerArmed == BagCardinality(timers) <= 1

(***************************************************************************)
(* Properties of the cache key                                             *)
(***************************************************************************)
\* C39: a call answered from the cache with the set that the call before it
\* fetched and stored was made for the same artist and the same title.
C39_NoSharedEntry ==
    (last.ok /\ ~last.requested /\ prev.ok /\ prev.requested /\ last.ret = prev.ret)
        => (last.artist = prev.artist /\ last.title = prev.title)

(***************************************************************************)
(* Properties of a failed refresh                                          *)
(***************************************************************************)
\* a step in which caller c's RefreshToken returns an error without having
\* parsed a 200 answer: no refresh token, no answer, a status other than 200,
\* or a body that does not parse
RefreshReturnsEarly(c) ==
    /\ tc[c].pc \in {"refresh", "awaiting"}
    /\ tc'[c].pc = "done"
    /\ tc'[c].resp = NoResponse

\* C40: a RefreshToken call that fails before it has a parsed answer changes
\* neither the credentials in memory nor the credentials file.
C40_FailedRefreshKeepsCredentials ==
    [][\A c \in Callers : RefreshReturnsEarly(c) => (auth' = auth /\ authFile' = authFile)]_vars

\* a refresh whose request went out has failed, and the repository holds the
\* credentials, with their refresh token, that the call read
C40_Witness ==
    \E c \in Callers :
        /\ tc[c].pc = "done" /\ tc[c].ret = "failed to refresh token"
        /\ tc[c].resp = NoResponse
        /\ HasRefreshToken(tc[c].old)
        /\ auth = tc[c].old /\ authFile = FileWith(tc[c].old)

====
